---- MODULE Spec2Model ----
(***************************************************************************)
(* Model of update_cities.py: one run of the script that downloads the     *)
(* world-cities CSV and rewrites GPSInfo/cities.plist.                      *)
(*                                                                         *)
(* A text is a sequence of tokens.  NL is a line terminator, COMMA the CSV *)
(* delimiter, QUOTE the CSV quote character and every other token a chunk  *)
(* of ordinary characters.  A CSV field (a Python str) is the sequence of  *)
(* the tokens it is made of.                                               *)
(***************************************************************************)
EXTENDS Integers, Sequences, FiniteSets, TLC

VARIABLES
  pc,       \* the statement the script is about to run, or "done", or "failed"
  res,      \* the response of the GET
  reader,   \* the csv reader: the rows of its lines and how many it has yielded
  cities,   \* the list of records built so far
  file,     \* GPSInfo/cities.plist on disk
  before,   \* what the file held when the run started
  failure,  \* the exception that ended the run, or "none"
  gets,     \* how many GET requests have been issued
  opens     \* how many times the output file has been opened

vars == <<pc, res, reader, cities, file, before, failure, gets, opens>>

\* ------------------------------------------------------------------ bounds

\* Largest number of data lines (the lines after the first) of a response body.
MaxDataRows == 3

\* ------------------------------------------------------------------ tokens

NL == "\n"
COMMA == ","
QUOTE == "\""

\* ------------------------------------------------------- the response bodies

\* The header line of the dataset.
Header ==
  <<"city", COMMA, "city_ascii", COMMA, "lat", COMMA, "lng", COMMA, "pop", COMMA,
    "country", COMMA, "iso2", COMMA, "iso3", COMMA, "province">>

\* Tokyo,Tokyo,35.6897,139.6922,22006299.5,Japan,JP,JPN,Tokyo
Tokyo ==
  <<"Tokyo", COMMA, "Tokyo", COMMA, "35.6897", COMMA, "139.6922", COMMA,
    "22006299.5", COMMA, "Japan", COMMA, "JP", COMMA, "JPN", COMMA, "Tokyo">>

\* Tokyo,"Edo, Kanto",35.6897,139.6922,1,Nippon,XX,XXX,
\* the same city and coordinates, every other column different.
TokyoAlt ==
  <<"Tokyo", COMMA, QUOTE, "Edo", COMMA, " Kanto", QUOTE, COMMA, "35.6897", COMMA,
    "139.6922", COMMA, "1", COMMA, "Nippon", COMMA, "XX", COMMA, "XXX", COMMA>>

\* "Quito, DM",Quito,-0.2150,-7.85e1,1399814,Ecuador,EC,ECU,Pichincha
Quito ==
  <<QUOTE, "Quito", COMMA, " DM", QUOTE, COMMA, "Quito", COMMA, "-0.2150", COMMA,
    "-7.85e1", COMMA, "1399814", COMMA, "Ecuador", COMMA, "EC", COMMA, "ECU",
    COMMA, "Pichincha">>

\* Eight columns.
ShortLine ==
  <<"Lima", COMMA, "Lima", COMMA, "-12.05", COMMA, "-77.0333", COMMA,
    "8012000", COMMA, "Peru", COMMA, "PE", COMMA, "PER">>

\* Ten columns.
LongLine ==
  <<"Lima", COMMA, "Lima", COMMA, "-12.05", COMMA, "-77.0333", COMMA,
    "8012000", COMMA, "Peru", COMMA, "PE", COMMA, "PER", COMMA, "Lima", COMMA,
    "extra">>

\* A blank line.
BlankLine == <<>>

\* Nine columns, latitude not a number.
BadLat ==
  <<"Paris", COMMA, "Paris", COMMA, "N/A", COMMA, "2.3522", COMMA,
    "9904000", COMMA, "France", COMMA, "FR", COMMA, "FRA", COMMA, "IDF">>

\* Nine columns, longitude empty.
BadLong ==
  <<"Paris", COMMA, "Paris", COMMA, "48.8566", COMMA, COMMA,
    "9904000", COMMA, "France", COMMA, "FR", COMMA, "FRA", COMMA, "IDF">>

\* The lines a body can start with: the header of the dataset, or a line that
\* happens to look like a city, or a line with too few columns.
FirstLines == {Header, Tokyo, ShortLine, BlankLine}

\* The lines that can follow.
DataLines ==
  {Tokyo, TokyoAlt, Quito, ShortLine, LongLine, BlankLine, BadLat, BadLong}

RECURSIVE DataSeqs(_)
\* The sequences of at most n data lines.
DataSeqs(n) ==
  IF n = 0 THEN {<<>>}
  ELSE LET shorter == DataSeqs(n - 1)
       IN  shorter \cup
           {Append(s, l) : s \in {t \in shorter : Len(t) = n - 1}, l \in DataLines}

\* The sequences of lines of a body: none, or a first line and the data lines.
LineSeqs == {<<>>} \cup {<<f>> \o d : f \in FirstLines, d \in DataSeqs(MaxDataRows)}

RECURSIVE JoinLines(_, _)
\* The text whose lines are ls; the last line ends with NL iff `final`.
JoinLines(ls, final) ==
  IF ls = <<>> THEN <<>>
  ELSE IF Len(ls) = 1 THEN IF final THEN Head(ls) \o <<NL>> ELSE Head(ls)
  ELSE Head(ls) \o <<NL>> \o JoinLines(Tail(ls), final)

\* The texts a decodable response body can be.
Texts == {JoinLines(ls, final) : ls \in LineSeqs, final \in BOOLEAN}

\* A body that is not valid UTF-8.
Undecodable == [utf8 |-> FALSE, text |-> <<>>]

Decodable(text) == [utf8 |-> TRUE, text |-> text]

\* The final status codes of the GET (redirections with a Location are followed
\* by the HTTP client; 300 and 304 are not).
Statuses == {200, 204, 300, 304, 404, 500}

\* Responses that never carry a body.
NoBodyStatuses == {204, 304}

\* The bodies a response of the given status can carry.
Contents(status) ==
  IF status \in NoBodyStatuses THEN {Decodable(<<>>)}
  ELSE IF status = 200 THEN {Decodable(t) : t \in Texts} \cup {Undecodable}
  ELSE {Decodable(<<>>), Decodable(JoinLines(<<Header, Tokyo>>, TRUE)), Undecodable}

\* ------------------------------------------------------------- conversions

\* Variant: only the server error class raises.
RaisesForServerError(status) == 500 <= status /\ status < 600

\* HTTPError is raised for the client and server error classes.
RaisesForStatus(status) == 400 <= status /\ status < 600

RECURSIVE SplitLines(_)
\* str.splitlines(): the text is cut at each line terminator, and a final
\* terminator opens no further line.
SplitLines(text) ==
  IF text = <<>> THEN <<>>
  ELSE LET ends == {i \in 1..Len(text) : text[i] = NL}
           end == IF ends = {} THEN Len(text) + 1
                  ELSE CHOOSE i \in ends : \A j \in ends : i <= j
       IN  <<SubSeq(text, 1, end - 1)>> \o SplitLines(SubSeq(text, end + 1, Len(text)))

RECURSIVE ParseFrom(_, _, _, _, _)
\* The csv reader's state machine over one line: st is "start" (at the start of
\* a field), "in" (in an unquoted field), "quoted" (in a quoted field) or
\* "qq" (after a quote inside a quoted field).
ParseFrom(line, i, fields, cur, st) ==
  IF i > Len(line) THEN Append(fields, cur)
  ELSE LET tok == line[i] IN
    CASE st = "start" ->
           IF tok = COMMA THEN ParseFrom(line, i + 1, Append(fields, cur), <<>>, "start")
           ELSE IF tok = QUOTE THEN ParseFrom(line, i + 1, fields, cur, "quoted")
           ELSE ParseFrom(line, i + 1, fields, Append(cur, tok), "in")
      [] st = "in" ->
           IF tok = COMMA THEN ParseFrom(line, i + 1, Append(fields, cur), <<>>, "start")
           ELSE ParseFrom(line, i + 1, fields, Append(cur, tok), "in")
      [] st = "quoted" ->
           IF tok = QUOTE THEN ParseFrom(line, i + 1, fields, cur, "qq")
           ELSE ParseFrom(line, i + 1, fields, Append(cur, tok), "quoted")
      [] st = "qq" ->
           IF tok = QUOTE THEN ParseFrom(line, i + 1, fields, Append(cur, tok), "quoted")
           ELSE IF tok = COMMA THEN ParseFrom(line, i + 1, Append(fields, cur), <<>>, "start")
           ELSE ParseFrom(line, i + 1, fields, Append(cur, tok), "in")

\* The row the csv reader yields for a line: no column at all for an empty line.
ParseRow(line) ==
  IF line = <<>> THEN <<>> ELSE ParseFrom(line, 1, <<>>, <<>>, "start")

\* The row of each line a body can hold, parsed once.
RowOfLine == [l \in FirstLines \cup DataLines |-> ParseRow(l)]

\* The rows csv.reader(lines) yields, one for each line.
CsvRows(lines) == [i \in 1..Len(lines) |-> RowOfLine[lines[i]]]

\* csv.reader(text.splitlines()) for every text a body can be.
ReaderRows == [t \in Texts |-> CsvRows(SplitLines(t))]

\* float() on the numerals of the bodies, in units of 1/10000.
FloatValue ==
  ( "35.6897" :> 356897 @@ "139.6922" :> 1396922 @@ "-0.2150" :> (-2150) @@
    "-7.85e1" :> (-785000) @@ "-12.05" :> (-120500) @@ "-77.0333" :> (-770333) @@
    "2.3522" :> 23522 @@ "48.8566" :> 488566 @@ "1" :> 10000 )

\* float(s) returns a value (it raises ValueError otherwise).
IsFloat(s) == Len(s) = 1 /\ s[1] \in DOMAIN FloatValue

ParseFloat(s) == FloatValue[s[1]]

\* Variant: a row with missing trailing columns is accepted.
UnpacksShort(row) == 4 <= Len(row) /\ Len(row) <= 9

\* Variant: the columns after the ninth are ignored.
UnpacksFirstNine(row) == Len(row) >= 9

\* The row unpacks into the nine targets of the assignment (ValueError otherwise).
Unpacks(row) == Len(row) = 9

\* float(lat) and float(long) both return (ValueError otherwise).
Convertible(row) == IsFloat(row[3]) /\ IsFloat(row[4])

\* Variant: the city is taken from the second column (city_ascii).
CityRecordAscii(row) ==
  [city |-> row[2], lat |-> ParseFloat(row[3]), long |-> ParseFloat(row[4])]

\* The dictionary built for a row.
CityRecord(row) ==
  [city |-> row[1], lat |-> ParseFloat(row[3]), long |-> ParseFloat(row[4])]

\* Variant: the record is inserted at the front of the list.
Prepended(list, record) == <<record>> \o list

\* cities.append(record)
Appended(list, record) == Append(list, record)

\* ------------------------------------------------------------------- files

\* The content of a file is the sequence of the property-list documents written
\* to it, each the array of its records.
Absent == [exists |-> FALSE, docs |-> <<>>]

\* A file holding one property list.
PlistFile(items) == [exists |-> TRUE, docs |-> <<items>>]

\* Variant: the file opened for appending keeps what it holds.
OpenedForAppend(f) == [exists |-> TRUE, docs |-> f.docs]

\* The file as open('wb') leaves it: created, or truncated to no bytes.
Opened(f) == [exists |-> TRUE, docs |-> <<>>]

\* plistlib.dump writes one document at the position of the open file.
WriteTo(f, items) == [f EXCEPT !.docs = Append(@, items)]

OldRecord(n) == [city |-> <<"Old">>, lat |-> n, long |-> -n]

\* What cities.plist may hold before the run: nothing, the list of an earlier run
\* with one city, or of one with more cities than this run can fetch.
InitFiles ==
  {Absent, PlistFile(<<OldRecord(1)>>),
   PlistFile([i \in 1..(MaxDataRows + 1) |-> OldRecord(i)])}

NoResponse == [status |-> 0, content |-> Decodable(<<>>)]

NoReader == [made |-> FALSE, rows |-> <<>>, pos |-> 0]

\* ------------------------------------------------------------------- state

Init ==
  /\ pc = "fetch"
  /\ res = NoResponse
  /\ reader = NoReader
  /\ cities = <<>>
  /\ file \in InitFiles
  /\ before = file
  /\ failure = "none"
  /\ gets = 0
  /\ opens = 0

Raise(exc) ==
  /\ pc' = "failed"
  /\ failure' = exc

\* res = requests.get(URL): a response arrives.
Fetch ==
  /\ pc = "fetch"
  /\ gets' = gets + 1
  /\ \E status \in Statuses : \E content \in Contents(status) :
       res' = [status |-> status, content |-> content]
  /\ pc' = "raise_for_status"
  /\ UNCHANGED <<reader, cities, file, before, failure, opens>>

\* Variant: the request is issued again after a failed exchange.
FetchErrorRetries ==
  /\ pc = "fetch"
  /\ gets' = gets + 1
  /\ UNCHANGED <<pc, res, reader, cities, file, before, failure, opens>>

\* res = requests.get(URL): the exchange fails and requests raises.
FetchError ==
  /\ pc = "fetch"
  /\ gets' = gets + 1
  /\ Raise("ConnectionError")
  /\ UNCHANGED <<res, reader, cities, file, before, opens>>

\* res.raise_for_status()
RaiseForStatus ==
  /\ pc = "raise_for_status"
  /\ IF RaisesForStatus(res.status)
       THEN Raise("HTTPError")
       ELSE pc' = "decode" /\ UNCHANGED failure
  /\ UNCHANGED <<res, reader, cities, file, before, gets, opens>>

\* reader = csv.reader(res.content.decode('utf-8').splitlines())
MakeReader ==
  /\ pc = "decode"
  /\ IF res.content.utf8
       THEN /\ reader' = [made |-> TRUE, rows |-> ReaderRows[res.content.text], pos |-> 0]
            /\ pc' = "header"
            /\ UNCHANGED failure
       ELSE /\ Raise("UnicodeDecodeError")
            /\ UNCHANGED reader
  /\ UNCHANGED <<res, cities, file, before, gets, opens>>

\* Variant: the first row is left in the reader.
SkipHeaderKeeps ==
  /\ pc = "header"
  /\ pc' = "loop"
  /\ UNCHANGED <<res, reader, cities, file, before, failure, gets, opens>>

\* Variant: the script waits for a first row that never comes.
SkipHeaderWaits ==
  /\ pc = "header"
  /\ reader.pos < Len(reader.rows)
  /\ reader' = [reader EXCEPT !.pos = @ + 1]
  /\ pc' = "loop"
  /\ UNCHANGED <<res, cities, file, before, failure, gets, opens>>

\* next(reader)
SkipHeader ==
  /\ pc = "header"
  /\ IF reader.pos < Len(reader.rows)
       THEN /\ reader' = [reader EXCEPT !.pos = @ + 1]
            /\ pc' = "loop"
            /\ UNCHANGED failure
       ELSE /\ Raise("StopIteration")
            /\ UNCHANGED reader
  /\ UNCHANGED <<res, cities, file, before, gets, opens>>

\* Variant: a row that cannot be unpacked or converted is skipped.
LoopStepSkipping ==
  /\ pc = "loop"
  /\ IF reader.pos < Len(reader.rows)
       THEN LET row == reader.rows[reader.pos + 1] IN
            /\ reader' = [reader EXCEPT !.pos = @ + 1]
            /\ cities' = IF Unpacks(row) /\ Convertible(row)
                            THEN Appended(cities, CityRecord(row))
                            ELSE cities
            /\ UNCHANGED <<pc, failure>>
       ELSE /\ pc' = "open"
            /\ UNCHANGED <<reader, cities, failure>>
  /\ UNCHANGED <<res, file, before, gets, opens>>

\* One iteration of `for row in reader`, or the end of the loop.
LoopStep ==
  /\ pc = "loop"
  /\ IF reader.pos < Len(reader.rows)
       THEN LET row == reader.rows[reader.pos + 1] IN
            /\ reader' = [reader EXCEPT !.pos = @ + 1]
            /\ IF Unpacks(row) /\ Convertible(row)
                 THEN /\ cities' = Appended(cities, CityRecord(row))
                      /\ UNCHANGED <<pc, failure>>
                 ELSE /\ Raise("ValueError")
                      /\ UNCHANGED cities
       ELSE /\ pc' = "open"
            /\ UNCHANGED <<reader, cities, failure>>
  /\ UNCHANGED <<res, file, before, gets, opens>>

\* OUT_FILE.open('wb')
OpenFile ==
  /\ pc = "open"
  /\ opens' = opens + 1
  /\ file' = Opened(file)
  /\ pc' = "dump"
  /\ UNCHANGED <<res, reader, cities, before, failure, gets>>

\* OUT_FILE.open('wb') raises (no GPSInfo directory, no permission).
OpenError ==
  /\ pc = "open"
  /\ Raise("OSError")
  /\ UNCHANGED <<res, reader, cities, file, before, gets, opens>>

\* plistlib.dump(cities, out_file, fmt=plistlib.FMT_BINARY), and the file closed.
Dump ==
  /\ pc = "dump"
  /\ file' = WriteTo(file, cities)
  /\ pc' = "done"
  /\ UNCHANGED <<res, reader, cities, before, failure, gets, opens>>

\* The write fails (disk full): the file is left without a complete document.
DumpError ==
  /\ pc = "dump"
  /\ Raise("OSError")
  /\ UNCHANGED <<res, reader, cities, file, before, gets, opens>>

Next ==
  \/ Fetch
  \/ FetchError
  \/ RaiseForStatus
  \/ MakeReader
  \/ SkipHeader
  \/ LoopStep
  \/ OpenFile
  \/ OpenError
  \/ Dump
  \/ DumpError

Spec == Init /\ [][Next]_vars

\* ------------------------------------------------------------ the claims

\* res holds the response of the GET.
Received == gets >= 1 /\ failure # "ConnectionError"

\* The rows of the body: the first one and the data rows after it.
Rows == reader.rows

\* A row of nine columns with numerals for latitude and longitude.
WellFormed(row) == Len(row) = 9 /\ IsFloat(row[3]) /\ IsFloat(row[4])

\* The record a row stands for: columns 0, 2 and 3 of the source.
RecordOf(row) ==
  [city |-> row[1], lat |-> FloatValue[row[3][1]], long |-> FloatValue[row[4][1]]]

\* The output file is as it was when the run started and was never opened.
Untouched == opens = 0 /\ file = before

\* C1: when the body is a first line followed by N well-formed data rows and the
\* fetch succeeded, nothing but the output file itself (OSError) makes the run
\* fail, the records built so far are those of the first data rows in their
\* order, and the file written holds exactly N records, the i-th from the i-th
\* data row.
Thm_C1 ==
  (reader.made /\ Len(Rows) >= 1 /\ \A k \in 2..Len(Rows) : WellFormed(Rows[k])) =>
    /\ failure \in {"none", "OSError"}
    /\ pc = "failed" => (failure = "OSError" /\ Len(cities) = Len(Rows) - 1)
    /\ Len(cities) <= Len(Rows) - 1
    /\ \A i \in 1..Len(cities) : cities[i] = RecordOf(Rows[i + 1])
    /\ pc = "done" => file = PlistFile([i \in 1..(Len(Rows) - 1) |-> RecordOf(Rows[i + 1])])

\* Three distinct well-formed data rows were written in their order.
Wit_C1 ==
  /\ pc = "done"
  /\ file.docs = <<cities>>
  /\ Len(cities) = 3
  /\ cities[1] # cities[2]
  /\ SplitLines(res.content.text) = <<Header, Quito, Tokyo, TokyoAlt>>

\* C2 as stated: after a response whose status is outside 200..299 the output
\* file is never opened or modified, and the run ends in the network failure.
Orig_C2 ==
  (Received /\ ~(200 <= res.status /\ res.status <= 299)) =>
    /\ Untouched
    /\ pc \in {"done", "failed"} => (pc = "failed" /\ failure = "HTTPError")

\* C2 amended: every response whose status is in 400..599 ends the run in the
\* network failure, the output file never opened or modified.
Thm_C2 ==
  (Received /\ 400 <= res.status /\ res.status <= 599) =>
    /\ Untouched
    /\ reader = NoReader
    /\ cities = <<>>
    /\ pc # "raise_for_status" => (pc = "failed" /\ failure = "HTTPError")

\* A 404 whose body is a usable CSV ended the run, the old file still there.
Wit_C2 ==
  /\ pc = "failed"
  /\ failure = "HTTPError"
  /\ res.status = 404
  /\ Len(res.content.text) > 0
  /\ file = before
  /\ file.exists

\* A row whose latitude or longitude is no numeral.
BadNumber(row) == Len(row) >= 4 /\ (~IsFloat(row[3]) \/ ~IsFloat(row[4]))

\* C3: when some data row has a latitude or longitude that is not a number, at
\* whatever position, the run never reaches the opening of the output file, the
\* file stays untouched, and the run can only end in the ValueError of a row.
Thm_C3 ==
  (reader.made /\ \E k \in 2..Len(Rows) : BadNumber(Rows[k])) =>
    /\ pc \notin {"open", "dump", "done"}
    /\ Untouched
    /\ pc = "failed" => failure = "ValueError"

\* The bad row was in the middle: records had been built from the rows before
\* it, a line was still to come, and nothing was written.
Wit_C3 ==
  /\ pc = "failed"
  /\ failure = "ValueError"
  /\ Len(cities) >= 1
  /\ reader.pos < Len(Rows)
  /\ Len(Rows[reader.pos]) = 9
  /\ BadNumber(Rows[reader.pos])
  /\ Untouched

\* C4: every record is the projection of its data row: city is column 0, lat and
\* long are columns 2 and 3 as parsed numbers; rows that agree on these three
\* columns give equal records whatever their other columns hold; and the records
\* written are the records built.
Thm_C4 ==
  reader.made =>
    /\ \A i \in 1..Len(cities) :
         /\ cities[i].city = Rows[i + 1][1]
         /\ cities[i].lat = FloatValue[Rows[i + 1][3][1]]
         /\ cities[i].long = FloatValue[Rows[i + 1][4][1]]
    /\ \A i, j \in 1..Len(cities) :
         (/\ Rows[i + 1][1] = Rows[j + 1][1]
          /\ Rows[i + 1][3] = Rows[j + 1][3]
          /\ Rows[i + 1][4] = Rows[j + 1][4]) => cities[i] = cities[j]
    /\ pc = "done" => file.docs = <<cities>>

\* Two rows that differ in their other columns were written as equal records.
Wit_C4 ==
  /\ pc = "done"
  /\ \E i, j \in 1..Len(cities) :
       /\ Rows[i + 1] # Rows[j + 1]
       /\ Rows[i + 1][2] # Rows[j + 1][2]
       /\ file.docs[1][i] = file.docs[1][j]

\* C5: the first row never contributes a record: there is always one record
\* fewer than rows consumed, the i-th record is that of the row at position
\* i + 1, a ValueError is always due to a row at position 2 or later, and the
\* file written holds one record fewer than the body has rows.
Thm_C5 ==
  reader.made =>
    /\ Len(cities) <= (IF reader.pos = 0 THEN 0 ELSE reader.pos - 1)
    /\ \A i \in 1..Len(cities) : cities[i] = RecordOf(Rows[i + 1])
    /\ failure = "ValueError" => (reader.pos >= 2 /\ ~WellFormed(Rows[reader.pos]))
    /\ pc = "done" => Len(file.docs[1]) = Len(Rows) - 1

\* The first row looked like a city and is not in the file written.
Wit_C5 ==
  /\ pc = "done"
  /\ WellFormed(Rows[1])
  /\ Len(file.docs[1]) = 1
  /\ file.docs[1][1] # RecordOf(Rows[1])

\* C6: when a data row has fewer than 9 columns, the run never reaches the
\* opening of the output file, the file stays untouched, the run can only end in
\* the ValueError of a row, no row after that one is consumed and no record is
\* built from it or from a later row.
Thm_C6 ==
  reader.made =>
    \A k \in 2..Len(Rows) :
      Len(Rows[k]) < 9 =>
        /\ pc \notin {"open", "dump", "done"}
        /\ Untouched
        /\ pc = "failed" => failure = "ValueError"
        /\ reader.pos <= k
        /\ Len(cities) <= k - 2

\* A blank line in the middle ended the run: records had been built, a line was
\* still to come.
Wit_C6 ==
  /\ pc = "failed"
  /\ failure = "ValueError"
  /\ Len(cities) >= 1
  /\ reader.pos < Len(Rows)
  /\ Rows[reader.pos] = <<>>
  /\ Untouched

\* C7: after a run that completes, the file holds one property list, that of the
\* records of the data rows of the body, whatever it held before.
Thm_C7 ==
  pc = "done" =>
    /\ file.exists
    /\ file.docs = <<[i \in 1..(Len(Rows) - 1) |-> RecordOf(Rows[i + 1])]>>

\* A file that held more records than the body has rows holds the one of the body.
Wit_C7 ==
  /\ pc = "done"
  /\ Len(before.docs) = 1
  /\ Len(before.docs[1]) > 1
  /\ Len(file.docs[1]) = 1
  /\ file.docs[1][1].city # before.docs[1][1].city

\* The failures of the two kinds of C8: the network failures, and the ValueError
\* of a row (UnicodeDecodeError is a ValueError too).
TwoKinds == {"ConnectionError", "HTTPError", "ValueError", "UnicodeDecodeError"}

Cause ==
  CASE failure = "ConnectionError" -> res = NoResponse
    [] failure = "HTTPError" -> 400 <= res.status /\ res.status <= 599
    [] failure = "UnicodeDecodeError" -> ~res.content.utf8
    [] failure = "StopIteration" -> reader.made /\ Rows = <<>> /\ res.content.text = <<>>
    [] failure = "ValueError" -> reader.pos >= 2 /\ ~WellFormed(Rows[reader.pos])
    [] failure = "OSError" -> reader.pos = Len(Rows) /\ Len(cities) = Len(Rows) - 1
    [] OTHER -> FALSE

\* How far the run is: the rank of its statement.
Stage(p) ==
  CASE p = "fetch" -> 0
    [] p = "raise_for_status" -> 1
    [] p = "decode" -> 2
    [] p = "header" -> 3
    [] p = "loop" -> 4
    [] p = "open" -> 5
    [] p = "dump" -> 6
    [] OTHER -> 7

\* A step moves to a later statement, or consumes one more of the rows.
Advances ==
  \/ Stage(pc') > Stage(pc)
  \/ pc' = pc /\ reader'.pos = reader.pos + 1 /\ reader'.pos <= Len(reader'.rows)

Thm_C9 ==
  /\ gets <= 1
  /\ opens <= 1
  /\ pc = "fetch" => gets = 0
  /\ (reader.made \/ cities # <<>>) =>
       /\ gets = 1
       /\ pc \notin {"fetch", "raise_for_status"}
       /\ ~(400 <= res.status /\ res.status <= 599)
  /\ (opens = 1 \/ file # before) =>
       /\ opens = 1
       /\ reader.made
       /\ reader.pos = Len(Rows)
       /\ Len(cities) = Len(Rows) - 1
       /\ \A k \in 2..Len(Rows) : WellFormed(Rows[k])

\* A run went through the three stages, once each.
Wit_C9 ==
  /\ pc = "done"
  /\ gets = 1
  /\ opens = 1
  /\ Len(cities) >= 2
  /\ file # before

\* C10: when a data row has more than 9 columns, the run never reaches the
\* opening of the output file, the file stays untouched, no record is built from
\* that row, and the run can only end in the ValueError of a row; so a run that
\* completes had 9 columns in every data row.
Thm_C10 ==
  reader.made =>
    /\ \A k \in 2..Len(Rows) :
         Len(Rows[k]) > 9 =>
           /\ pc \notin {"open", "dump", "done"}
           /\ Untouched
           /\ pc = "failed" => failure = "ValueError"
           /\ Len(cities) <= k - 2
    /\ pc = "done" => \A k \in 2..Len(Rows) : Len(Rows[k]) = 9

\* A row of ten columns, its first nine those of a city, ended the run.
Wit_C10 ==
  /\ pc = "failed"
  /\ failure = "ValueError"
  /\ Len(cities) >= 1
  /\ Len(Rows[reader.pos]) = 10
  /\ IsFloat(Rows[reader.pos][3])
  /\ IsFloat(Rows[reader.pos][4])
  /\ Untouched

====
